---- MODULE Spec2Model ----
(***************************************************************************)
(* Marketing module: JSON repository, customer segmentation, campaign      *)
(* lifecycle (create / launch) and engagement simulation.                  *)
(*                                                                         *)
(* The backing JSON files are the variables `campaigns` and `customers`   *)
(* (lists of raw dicts).  Every service call runs in a thread of `th`; a   *)
(* step of a thread is one access to a backing file or one call of the     *)
(* email provider, which are the points where two requests can interleave. *)
(***************************************************************************)
EXTENDS Integers, Sequences, FiniteSets, TLC

\* ---------------------------------------------------------------- bounds
MaxCampaigns == 2   \* campaigns that create_campaign may allocate
NumCustomers == 3   \* size of the stored customer population (service runs)
MaxPop == 2         \* longest customer population drawn for filter runs
MaxStore == 3       \* longest collection built by direct repository calls

\* ------------------------------------------------------------- python values
\* Optional values: None is the empty tuple, a present value v is <<v>>.
None == <<>>
Some(v) == <<v>>
\* "no object" returned by get_by_id / update
NoEntity == [none |-> TRUE]

\* str.lower() on the city names that occur
Lower(s) ==
    CASE s = "Ankara" -> "ankara"
      [] s = "ANKARA" -> "ankara"
      [] s = "Izmir" -> "izmir"
      [] s = "Nowhere" -> "nowhere"
      [] OTHER -> s

\* str.strip() on the titles / templates that occur
Strip(s) ==
    CASE s = " " -> ""
      [] s = " Sale " -> "Sale"
      [] s = " Hi {name} " -> "Hi {name}"
      [] OTHER -> s

\* ---------------------------------------------------------------- customers
\* name and email are derived from the id: <<"name", i>>, <<"email", i>>
Customer(i, city, age, score, spent, active) ==
    [id |-> i, name |-> <<"name", i>>, email |-> <<"email", i>>, city |-> city,
     age |-> age, spending_score |-> score, total_spent |-> spent,
     is_active |-> active]

\* Customer.to_dict: the dict built key by key from the object's attributes
Customer_to_dict(c) ==
    [id |-> c.id, name |-> c.name, email |-> c.email, city |-> c.city,
     age |-> c.age, spending_score |-> c.spending_score,
     total_spent |-> c.total_spent, is_active |-> c.is_active]

\* Customer.from_dict: the object built attribute by attribute from the dict
Customer_from_dict(data) ==
    [id |-> data.id, name |-> data.name, email |-> data.email, city |-> data.city,
     age |-> data.age, spending_score |-> data.spending_score,
     total_spent |-> data.total_spent, is_active |-> data.is_active]

CustomerUniverse ==
    << Customer(1, "Ankara", 30, 50, 100, TRUE),
       Customer(2, "Izmir", 40, 90, 150, TRUE),
       Customer(3, "ankara", 20, 10, 50, FALSE),
       Customer(4, "Izmir", 30, 50, 100, FALSE),
       Customer(5, "ANKARA", 40, 10, 150, TRUE),
       Customer(6, "Ankara", 20, 90, 50, FALSE) >>

\* the population the services run on
Population == [i \in 1..NumCustomers |-> CustomerUniverse[i]]

\* ---------------------------------------------------------------- criteria
\* A criteria dict is a function from the keys it holds to optional values.
CriteriaKeys ==
    {"city", "min_age", "max_age", "min_spent", "max_spent",
     "min_spending_score", "max_spending_score", "is_active"}

EmptyCriteria == [k \in {} |-> None]

\* `'k' in criteria and criteria['k'] is not None`
Present(criteria, k) == k \in DOMAIN criteria /\ criteria[k] # None

\* `'city' in criteria and criteria['city']` (None and "" are falsy)
CityPresent(criteria) ==
    "city" \in DOMAIN criteria /\ criteria["city"] # None /\ criteria["city"][1] # ""

_matches_criteria_strict(customer, criteria) ==
    IF CityPresent(criteria) /\ Lower(customer.city) # Lower(criteria["city"][1])
    THEN FALSE
    ELSE IF Present(criteria, "min_age") /\ customer.age <= criteria["min_age"][1]
    THEN FALSE
    ELSE IF Present(criteria, "max_age") /\ customer.age > criteria["max_age"][1]
    THEN FALSE
    ELSE IF Present(criteria, "min_spent") /\ customer.total_spent < criteria["min_spent"][1]
    THEN FALSE
    ELSE IF Present(criteria, "max_spent") /\ customer.total_spent > criteria["max_spent"][1]
    THEN FALSE
    ELSE IF Present(criteria, "min_spending_score")
            /\ customer.spending_score < criteria["min_spending_score"][1]
    THEN FALSE
    ELSE IF Present(criteria, "max_spending_score")
            /\ customer.spending_score > criteria["max_spending_score"][1]
    THEN FALSE
    ELSE IF Present(criteria, "is_active") /\ customer.is_active # criteria["is_active"][1]
    THEN FALSE
    ELSE TRUE

_matches_criteria(customer, criteria) ==
    IF CityPresent(criteria) /\ Lower(customer.city) # Lower(criteria["city"][1])
    THEN FALSE
    ELSE IF Present(criteria, "min_age") /\ customer.age < criteria["min_age"][1]
    THEN FALSE
    ELSE IF Present(criteria, "max_age") /\ customer.age > criteria["max_age"][1]
    THEN FALSE
    ELSE IF Present(criteria, "min_spent") /\ customer.total_spent < criteria["min_spent"][1]
    THEN FALSE
    ELSE IF Present(criteria, "max_spent") /\ customer.total_spent > criteria["max_spent"][1]
    THEN FALSE
    ELSE IF Present(criteria, "min_spending_score")
            /\ customer.spending_score < criteria["min_spending_score"][1]
    THEN FALSE
    ELSE IF Present(criteria, "max_spending_score")
            /\ customer.spending_score > criteria["max_spending_score"][1]
    THEN FALSE
    ELSE IF Present(criteria, "is_active") /\ customer.is_active # criteria["is_active"][1]
    THEN FALSE
    ELSE TRUE

\* filter_customers over the customer list read from the repository
filter_customers(all_customers, criteria) ==
    SelectSeq(all_customers, LAMBDA c : _matches_criteria(c, criteria))

\* ---------------------------------------------------------------- campaign codec
\* A Campaign object holds created_at as a datetime [dt |-> n]; its dict holds
\* the ISO string [iso |-> n].
Campaign(id, title, content, criteria, status, created, stats) ==
    [id |-> id, title |-> title, content_template |-> content,
     target_segment_criteria |-> criteria, status |-> status,
     created_at |-> created, stats |-> stats]

ZeroStats == [sent |-> 0, opened |-> 0, clicked |-> 0]

to_dict_restamp(c) ==
    [c EXCEPT !.created_at =
        [iso |-> 1 + (IF "dt" \in DOMAIN c.created_at
                      THEN c.created_at.dt ELSE c.created_at.iso)]]

to_dict(c) ==
    [c EXCEPT !.created_at =
        IF "dt" \in DOMAIN c.created_at THEN [iso |-> c.created_at.dt] ELSE c.created_at]

from_dict_dropStatus(data) ==
    Campaign(data.id, data.title, data.content_template, data.target_segment_criteria,
             "Draft",
             IF "iso" \in DOMAIN data.created_at
             THEN [dt |-> data.created_at.iso] ELSE data.created_at,
             data.stats)

from_dict_zeroStats(data) ==
    Campaign(data.id, data.title, data.content_template, data.target_segment_criteria,
             IF "status" \in DOMAIN data THEN data.status ELSE "Draft",
             IF "iso" \in DOMAIN data.created_at
             THEN [dt |-> data.created_at.iso] ELSE data.created_at,
             ZeroStats)

from_dict(data) ==
    Campaign(data.id, data.title, data.content_template, data.target_segment_criteria,
             IF "status" \in DOMAIN data THEN data.status ELSE "Draft",
             IF "iso" \in DOMAIN data.created_at
             THEN [dt |-> data.created_at.iso] ELSE data.created_at,
             IF "stats" \in DOMAIN data THEN data.stats ELSE ZeroStats)

\* ---------------------------------------------------------------- repository
\* The repository methods as functions of the raw list they read.

\* index of the first item with this id, 0 when there is none
FirstIndex(raw_data, entity_id) ==
    IF \E i \in 1..Len(raw_data) : raw_data[i].id = entity_id
    THEN CHOOSE i \in 1..Len(raw_data) :
            /\ raw_data[i].id = entity_id
            /\ \A j \in 1..(i - 1) : raw_data[j].id # entity_id
    ELSE 0

get_all(raw_data) == [i \in 1..Len(raw_data) |-> from_dict(raw_data[i])]

get_by_id_orFirst(raw_data, entity_id) ==
    IF raw_data = <<>> THEN NoEntity
    ELSE IF FirstIndex(raw_data, entity_id) = 0 THEN from_dict(raw_data[1])
    ELSE from_dict(raw_data[FirstIndex(raw_data, entity_id)])

get_by_id(raw_data, entity_id) ==
    IF FirstIndex(raw_data, entity_id) = 0
    THEN NoEntity
    ELSE from_dict(raw_data[FirstIndex(raw_data, entity_id)])

save_replace(raw_data, entity) == <<to_dict(entity)>>

\* save: the list written back
save(raw_data, entity) == Append(raw_data, to_dict(entity))

\* update: the list written back when the id is found
update_allMatching(raw_data, i, entity) ==
    [j \in DOMAIN raw_data |->
        IF raw_data[j].id = raw_data[i].id THEN to_dict(entity) ELSE raw_data[j]]

update_first(raw_data, i, entity) == [raw_data EXCEPT ![1] = to_dict(entity)]

update(raw_data, i, entity) == [raw_data EXCEPT ![i] = to_dict(entity)]

\* delete: the list left after filtering the id out
delete(raw_data, entity_id) == SelectSeq(raw_data, LAMBDA item : item.id # entity_id)


\* ---------------------------------------------------------------- state
Threads == {"t1", "t2"}      \* request threads of the web server
SeqThreads == {"t1"}         \* a single caller: calls run one after another

CampaignIds == 1..MaxCampaigns

VARIABLES
    campaigns,   \* campaigns.json: the list of raw campaign dicts
    customers,   \* customers.json: the list of customers
    uuids,       \* ids handed out by uuid4 so far (each one is fresh)
    th,          \* per thread: position in its call, locals, and the call's record
    everSent,    \* history: ids that have been stored with status 'Sent'
    simulated,   \* history: ids on which simulate_engagement has triggered
    aborted,     \* history: ids whose launch has returned the zero-audience result
    file,        \* condition of campaigns.json: "ok", "malformed", "missing", "denied"
    repo,        \* record of the last direct repository or codec call
    flt          \* record of the last filter_customers call on a drawn population

vars ==
    <<campaigns, customers, uuids, th, everSent, simulated, aborted, file, repo, flt>>

IdleThread ==
    [pc |-> "idle", op |-> "none", arg |-> 0, real |-> FALSE, camp |-> NoEntity,
     targets |-> <<>>, idx |-> 0, emails_sent |-> 0, emails_failed |-> 0,
     raw |-> <<>>, pos |-> 0,
     sends |-> <<>>,        \* history: the provider calls of this call, in order
     nwrites |-> 0,         \* history: writes of campaigns.json by this call
     stale |-> FALSE,       \* history: the call wrote a list read before another write
     pre |-> <<>>,          \* history: campaigns.json when the call started
     inp |-> <<>>,          \* history: the arguments of a create call
     result |-> [kind |-> "none"]]

Init ==
    /\ campaigns = <<>>
    /\ customers = Population
    /\ uuids = 0
    /\ th = [t \in Threads |-> IdleThread]
    /\ everSent = {}
    /\ simulated = {}
    /\ aborted = {}
    /\ file = "ok"
    /\ repo = [op |-> "none"]
    /\ flt = [applied |-> FALSE]

SentIds(raw_data) == {raw_data[i].id : i \in {j \in 1..Len(raw_data) : raw_data[j].status = "Sent"}}

\* a call returns (or raises): the thread is idle again and keeps the call's record
Return(rec, result) ==
    [rec EXCEPT !.pc = "idle", !.result = result, !.camp = NoEntity, !.targets = <<>>,
                !.idx = 0, !.raw = <<>>, !.pos = 0]

Call(op, arg, real) ==
    [IdleThread EXCEPT !.op = op, !.arg = arg, !.real = real, !.pre = campaigns]

\* ---------------------------------------------------------------- email provider
\* MockEmailProvider.send always returns True; SmtpEmailProvider.send returns
\* True, or False on any exception.
SenderOutcomes(real) == IF real THEN BOOLEAN ELSE {TRUE}

\* ---------------------------------------------------------------- create_campaign
Titles == {"", " ", " Sale "}
Templates == {"", " ", " Hi {name} "}
CreateCriteria ==
    { EmptyCriteria,
      [k \in {"city"} |-> Some("ANKARA")],
      [k \in {"city"} |-> Some("Nowhere")],
      [k \in {"min_age", "is_active"} |-> IF k = "min_age" THEN Some(30) ELSE Some(TRUE)] }

Invalid_noStrip(title, content, criteria) ==
    title = "" \/ content = "" \/ DOMAIN criteria = {}

\* the three validation checks of create_campaign
Invalid(title, content, criteria) ==
    \/ title = "" \/ Strip(title) = ""
    \/ content = "" \/ Strip(content) = ""
    \/ DOMAIN criteria = {}

\* the argument triples create_campaign is called with: the valid ones, those
\* with one invalid argument, and the one with every argument empty
CreateInputs ==
    { x \in Titles \X Templates \X CreateCriteria :
        \/ Cardinality({i \in 1..3 : Invalid(IF i = 1 THEN x[1] ELSE " Sale ",
                                              IF i = 2 THEN x[2] ELSE " Hi {name} ",
                                              IF i = 3 THEN x[3]
                                              ELSE [k \in {"city"} |-> Some("ANKARA")])}) <= 1
        \/ x = <<"", "", EmptyCriteria>> }

CreateBegin(t, title, content, criteria) ==
    /\ th[t].pc = "idle"
    /\ IF Invalid(title, content, criteria)
       THEN /\ th' = [th EXCEPT ![t] =
                        Return([Call("create", 0, FALSE) EXCEPT
                                   !.inp = <<title, content, criteria>>],
                               [kind |-> "ValidationError"])]
            /\ UNCHANGED uuids
       ELSE /\ uuids < MaxCampaigns
            /\ uuids' = uuids + 1
            /\ th' = [th EXCEPT ![t] =
                        [Call("create", uuids + 1, FALSE) EXCEPT
                            !.pc = "save_write",
                            !.inp = <<title, content, criteria>>,
                            !.camp = Campaign(uuids + 1, Strip(title), Strip(content),
                                              criteria, "Draft", [dt |-> uuids + 1],
                                              ZeroStats),
                            !.raw = campaigns]]
    /\ UNCHANGED <<campaigns, customers, everSent, simulated, repo, flt, aborted, file>>

SaveWrite(t) ==
    /\ th[t].pc = "save_write"
    /\ campaigns' = save(th[t].raw, th[t].camp)
    /\ everSent' = everSent \cup SentIds(campaigns')
    /\ th' = [th EXCEPT ![t] =
                Return([@ EXCEPT !.nwrites = @ + 1, !.stale = (th[t].raw # campaigns)],
                       [kind |-> "Created", campaign |-> th[t].camp])]
    /\ UNCHANGED <<customers, uuids, simulated, repo, flt, aborted, file>>

\* ---------------------------------------------------------------- launch_campaign
AlreadySent_never(campaign) == FALSE

AlreadySent(campaign) == campaign.status = "Sent"

LaunchBegin(t, id, real) ==
    /\ th[t].pc = "idle"
    /\ LET campaign == get_by_id(campaigns, id)
           call == Call("launch", id, real)
       IN th' = [th EXCEPT ![t] =
                    IF campaign = NoEntity
                    THEN Return(call, [kind |-> "NotFound"])
                    ELSE IF AlreadySent(campaign)
                    THEN Return(call, [kind |-> "AlreadySent"])
                    ELSE [call EXCEPT !.pc = "filter", !.camp = campaign]]
    /\ UNCHANGED <<campaigns, customers, uuids, everSent, simulated, repo, flt, aborted, file>>

\* `campaign.stats['sent'] = emails_sent; campaign.status = 'Sent'`
MarkSent_countAll(campaign, emails_sent) ==
    [campaign EXCEPT !.stats.sent = emails_sent + 1, !.status = "Sent"]

MarkSent_statsOnly(campaign, emails_sent) ==
    [campaign EXCEPT !.stats.sent = emails_sent]

MarkSent_onlyIfDelivered(campaign, emails_sent) ==
    IF emails_sent = 0 THEN campaign
    ELSE [campaign EXCEPT !.stats.sent = emails_sent, !.status = "Sent"]

MarkSent(campaign, emails_sent) ==
    [campaign EXCEPT !.stats.sent = emails_sent, !.status = "Sent"]

\* `if not target_customers`
EmptyAudience_never(target_customers) == FALSE

EmptyAudience(target_customers) == target_customers = <<>>

NoAudience ==
    [kind |-> "NoAudience", success |-> FALSE, emails_sent |-> 0,
     target_audience_size |-> 0]

LaunchFilter(t) ==
    /\ th[t].pc = "filter"
    /\ LET target_customers ==
               filter_customers(customers, th[t].camp.target_segment_criteria)
       IN /\ th' = [th EXCEPT ![t] =
                       IF EmptyAudience(target_customers)
                       THEN Return(@, NoAudience)
                       ELSE IF Len(target_customers) = 0
                       THEN \* a loop over no customers falls through to the update
                            [@ EXCEPT !.pc = "update_read", !.camp = MarkSent(@, 0)]
                       ELSE [@ EXCEPT !.pc = "send", !.targets = target_customers,
                                      !.idx = 1, !.emails_sent = 0, !.emails_failed = 0]]
          /\ aborted' = IF EmptyAudience(target_customers)
                        THEN aborted \cup {th[t].arg} ELSE aborted
    /\ UNCHANGED <<campaigns, customers, uuids, everSent, simulated, repo, flt, file>>

\* the loop continues with the next customer whatever send returned
LoopDone_afterFirst(rec, success) == TRUE

LoopDone_stopOnFailure(rec, success) == rec.idx = Len(rec.targets) \/ ~success

LoopDone(rec, success) == rec.idx = Len(rec.targets)

LaunchSend(t) ==
    /\ th[t].pc = "send"
    /\ \E success \in SenderOutcomes(th[t].real) :
         LET rec == th[t]
             sent == IF success THEN rec.emails_sent + 1 ELSE rec.emails_sent
             failed == IF success THEN rec.emails_failed ELSE rec.emails_failed + 1
             counted == [rec EXCEPT
                            !.emails_sent = sent, !.emails_failed = failed,
                            !.sends = Append(@, [to |-> rec.targets[rec.idx].id,
                                                 ok |-> success])]
         IN th' = [th EXCEPT ![t] =
                      IF LoopDone(rec, success)
                      THEN [counted EXCEPT !.pc = "update_read",
                                           !.camp = MarkSent(rec.camp, sent)]
                      ELSE [counted EXCEPT !.idx = rec.idx + 1]]
    /\ UNCHANGED <<campaigns, customers, uuids, everSent, simulated, repo, flt, aborted, file>>

\* what the caller of repository.update returns once update has returned
AfterUpdate(rec) ==
    IF rec.op = "launch"
    THEN [kind |-> "Launched", success |-> TRUE, emails_sent |-> rec.emails_sent,
          emails_failed |-> rec.emails_failed,
          target_audience_size |-> Len(rec.targets), campaign_id |-> rec.camp.id]
    ELSE [kind |-> "Simulated", campaign |-> rec.camp]

\* repository.update, first half: read the whole list and look the id up
UpdateRead(t) ==
    /\ th[t].pc = "update_read"
    /\ LET i == FirstIndex(campaigns, th[t].camp.id)
       IN th' = [th EXCEPT ![t] =
                    IF i = 0
                    THEN Return(@, AfterUpdate(@))
                    ELSE [@ EXCEPT !.pc = "update_write", !.raw = campaigns, !.pos = i]]
    /\ UNCHANGED <<campaigns, customers, uuids, everSent, simulated, repo, flt, aborted, file>>

\* repository.update, second half: write the whole list back
UpdateWrite(t) ==
    /\ th[t].pc = "update_write"
    /\ campaigns' = update(th[t].raw, th[t].pos, th[t].camp)
    /\ everSent' = everSent \cup SentIds(campaigns')
    /\ th' = [th EXCEPT ![t] =
                Return([@ EXCEPT !.nwrites = @ + 1, !.stale = (th[t].raw # campaigns)],
                       AfterUpdate(@))]
    /\ UNCHANGED <<customers, uuids, simulated, repo, flt, aborted, file>>

\* ---------------------------------------------------------------- simulate_engagement
OpenRateMinPct == 25
OpenRateMaxPct == 65
ClickRateMinPct == 5
ClickRateMaxPct == 20

\* int(n * rate) for a rate given in percent
Scaled_roundUp(n, pct) == (n * pct + 99) \div 100

Scaled(n, pct) == (n * pct) \div 100

Trigger_anySent(campaign) == campaign.stats.sent > 0

Trigger(campaign) ==
    campaign.stats.sent > 0 /\ campaign.stats.opened = 0 /\ campaign.stats.clicked = 0

\* the (opened, clicked) pairs the two random.uniform draws can produce
SimOutcomes(emails_sent) ==
    { <<Scaled(emails_sent, open_rate),
        Scaled(Scaled(emails_sent, open_rate), click_rate_of_opens)>> :
        open_rate \in OpenRateMinPct..OpenRateMaxPct,
        click_rate_of_opens \in ClickRateMinPct..ClickRateMaxPct }

\* values of stats.sent drawn for the analytics runs
SimSent == {0, 1, 2, 3, 4, 20, 100}

\* SimOutcomes tabulated for the values stats.sent can take
SimTable == [n \in (0..Len(CustomerUniverse)) \cup SimSent |-> SimOutcomes(n)]

\* `campaign.stats['opened'] = ...; campaign.stats['clicked'] = ...`
Engage_resetSent(campaign, emails_opened, emails_clicked) ==
    [campaign EXCEPT !.stats = [sent |-> 0, opened |-> emails_opened,
                                clicked |-> emails_clicked]]

Engage_swapped(campaign, emails_opened, emails_clicked) ==
    [campaign EXCEPT !.stats.opened = emails_clicked,
                     !.stats.clicked = emails_opened]

Engage(campaign, emails_opened, emails_clicked) ==
    [campaign EXCEPT !.stats.opened = emails_opened,
                     !.stats.clicked = emails_clicked]

SimulateBegin(t, id) ==
    /\ th[t].pc = "idle"
    /\ LET campaign == get_by_id(campaigns, id)
           call == Call("simulate", id, FALSE)
       IN IF campaign = NoEntity
          THEN /\ th' = [th EXCEPT ![t] = Return(call, [kind |-> "NotFound"])]
               /\ UNCHANGED simulated
          ELSE IF Trigger(campaign)
          THEN /\ \E drawn \in SimTable[campaign.stats.sent] :
                    th' = [th EXCEPT ![t] =
                              [call EXCEPT
                                 !.pc = "update_read",
                                 !.camp = Engage(campaign, drawn[1], drawn[2])]]
               /\ simulated' = simulated \cup {id}
          ELSE /\ th' = [th EXCEPT ![t] =
                            Return(call, [kind |-> "Simulated", campaign |-> campaign])]
               /\ UNCHANGED simulated
    /\ UNCHANGED <<campaigns, customers, uuids, everSent, repo, flt, aborted, file>>

\* ---------------------------------------------------------------- get_campaign_performance
ClickValue == 15          \* roi_prediction = clicked * 15.0
OpenWeightTenths == 6     \* open_rate * 0.6
ClickWeightTenths == 40   \* click_through_rate * 4.0

\* `stats.get(k, 0)`
StatGet(stats, k) == IF k \in DOMAIN stats THEN stats[k] ELSE 0

\* num / den rounded to the nearest integer.  The metrics are kept as integers:
\* percentages and roi_prediction in hundredths (round(x, 2)), engagement_score
\* in tenths (round(x, 1)).
Round_down(num, den) == num \div den

Round(num, den) == (2 * num + den) \div (2 * den)

\* `(a / b * 100) if b > 0 else 0`, rounded to 2 decimals, in hundredths
Rate(a, b) == IF b > 0 THEN Round(a * 10000, b) ELSE 0

get_campaign_performance(campaign) ==
    LET sent == StatGet(campaign.stats, "sent")
        opened == StatGet(campaign.stats, "opened")
        clicked == StatGet(campaign.stats, "clicked")
        failed == StatGet(campaign.stats, "failed")
        total_attempted == sent + failed
        \* ten times (open_rate * 0.6 + click_through_rate * 4.0) is score10 / sent
        score10 == OpenWeightTenths * 100 * opened + ClickWeightTenths * 100 * clicked
    IN [sent |-> sent, opened |-> opened, clicked |-> clicked, failed |-> failed,
        delivery_rate |-> Rate(sent, total_attempted),
        open_rate |-> Rate(opened, sent),
        click_rate |-> Rate(clicked, opened),
        click_through_rate |-> Rate(clicked, sent),
        roi_prediction |-> clicked * ClickValue * 100,
        engagement_score |->
            IF sent > 0
            THEN IF score10 >= 1000 * sent THEN 1000 ELSE Round(score10, sent)
            ELSE 0,
        campaign_title |-> campaign.title,
        campaign_status |-> campaign.status,
        target_criteria |-> campaign.target_segment_criteria]

PerformanceBegin(t, id) ==
    /\ th[t].pc = "idle"
    /\ LET campaign == get_by_id(campaigns, id)
           call == Call("performance", id, FALSE)
       IN th' = [th EXCEPT ![t] =
                    IF campaign = NoEntity
                    THEN Return(call, [kind |-> "NotFound"])
                    ELSE Return(call, [kind |-> "Performance",
                                       metrics |-> get_campaign_performance(campaign)])]
    /\ UNCHANGED <<campaigns, customers, uuids, everSent, simulated, repo, flt, aborted, file>>

\* ---------------------------------------------------------------- specifications
Step(t) ==
    \/ \E x \in CreateInputs : CreateBegin(t, x[1], x[2], x[3])
    \/ SaveWrite(t)
    \/ \E id \in CampaignIds, real \in BOOLEAN : LaunchBegin(t, id, real)
    \/ LaunchFilter(t)
    \/ LaunchSend(t)
    \/ UpdateRead(t)
    \/ UpdateWrite(t)
    \/ \E id \in CampaignIds : SimulateBegin(t, id)
    \/ \E id \in CampaignIds : PerformanceBegin(t, id)

\* one caller, calls one after another
Next == \E t \in SeqThreads : Step(t)

Spec == Init /\ [][Next]_vars

\* Two request threads creating and launching campaigns, interleaved at every
\* file access and provider call; the campaigns target the customers of Ankara
\* and are sent through the mock provider.
ConcStep(t) ==
    \/ CreateBegin(t, " Sale ", " Hi {name} ", [k \in {"city"} |-> Some("ANKARA")])
    \/ SaveWrite(t)
    \/ \E id \in CampaignIds : LaunchBegin(t, id, FALSE)
    \/ LaunchFilter(t)
    \/ LaunchSend(t)
    \/ UpdateRead(t)
    \/ UpdateWrite(t)

NextConc == \E t \in Threads : ConcStep(t)

SpecConc == Init /\ [][NextConc]_vars

\* ---------------------------------------------------------------- analytics runs
\* AnalyticsService called by one caller on one stored campaign whose counters
\* are drawn (clicked <= opened <= sent); stats may or may not hold the key
\* 'failed'.
Counters ==
    { c \in [sent : SimSent, opened : {0, 1, 3, 40}, clicked : {0, 1, 8}] :
        c.clicked <= c.opened /\ c.opened <= c.sent }

StatsDomain ==
    Counters
    \cup
    { [sent |-> c.sent, opened |-> c.opened, clicked |-> c.clicked, failed |-> failed] :
        c \in Counters, failed \in {0, 2} }

InitAnalytics ==
    /\ campaigns \in
          { << to_dict(Campaign(1, "Sale", "Hi {name}", [k \in {"city"} |-> Some("ANKARA")],
                               "Sent", [dt |-> 1], stats)) >> : stats \in StatsDomain }
    /\ customers = Population
    /\ uuids = 1
    /\ th = [t \in Threads |-> IdleThread]
    /\ everSent = {1}
    /\ simulated = {}
    /\ aborted = {}
    /\ file = "ok"
    /\ repo = [op |-> "none"]
    /\ flt = [applied |-> FALSE]

NextAnalytics ==
    \E t \in SeqThreads :
        \/ \E id \in CampaignIds : SimulateBegin(t, id)
        \/ UpdateRead(t)
        \/ UpdateWrite(t)
        \/ \E id \in CampaignIds : PerformanceBegin(t, id)

SpecAnalytics == InitAnalytics /\ [][NextAnalytics]_vars

\* ---------------------------------------------------------------- direct repository calls
\* JsonRepository called directly by one caller: each call reads the whole list,
\* applies the operation and writes the whole list back.
EntityIds == 1..MaxCampaigns

Entities ==
    { Campaign(i, "Sale", "Hi {name}", [k \in {"city"} |-> Some("ANKARA")], st,
               [dt |-> i], ZeroStats) : i \in EntityIds, st \in {"Draft", "Sent"} }

\* _read_all_raw: the list read from the file.  A file that is missing
\* (FileNotFoundError) or does not hold JSON (JSONDecodeError) reads as [].
_read_all_raw_keep(condition, content) == content

_read_all_raw(condition, content) == IF condition = "ok" THEN content ELSE <<>>

\* open() on a file the process may not read raises PermissionError, which
\* _read_all_raw does not catch
ReadRaises(condition) == condition = "denied"

\* the record of a call that raised out of _read_all_raw
Raised(op) ==
    [op |-> op, raised |-> TRUE, before |-> campaigns, was |-> file]

RepoSave(entity) ==
    /\ Len(campaigns) < MaxStore
    /\ IF ReadRaises(file)
       THEN /\ repo' = Raised("save")
            /\ UNCHANGED <<campaigns, file>>
       ELSE /\ campaigns' = save(_read_all_raw(file, campaigns), entity)
            /\ file' = "ok"
            /\ repo' = [op |-> "save", raised |-> FALSE, entity |-> entity,
                        ret |-> entity, before |-> campaigns, was |-> file]
    /\ UNCHANGED <<customers, uuids, th, everSent, simulated, flt, aborted>>

RepoUpdate(entity_id, entity) ==
    /\ IF ReadRaises(file)
       THEN /\ repo' = Raised("update")
            /\ UNCHANGED <<campaigns, file>>
       ELSE LET raw_data == _read_all_raw(file, campaigns)
                i == FirstIndex(raw_data, entity_id)
            IN IF i = 0
               THEN /\ repo' = [op |-> "update", raised |-> FALSE, id |-> entity_id,
                                entity |-> entity, ret |-> NoEntity,
                                before |-> campaigns, was |-> file]
                    /\ UNCHANGED <<campaigns, file>>
               ELSE /\ campaigns' = update(raw_data, i, entity)
                    /\ file' = "ok"
                    /\ repo' = [op |-> "update", raised |-> FALSE, id |-> entity_id,
                                entity |-> entity, ret |-> entity,
                                before |-> campaigns, was |-> file]
    /\ UNCHANGED <<customers, uuids, th, everSent, simulated, flt, aborted>>

RepoDelete(entity_id) ==
    /\ IF ReadRaises(file)
       THEN /\ repo' = Raised("delete")
            /\ UNCHANGED <<campaigns, file>>
       ELSE LET original == _read_all_raw(file, campaigns)
                raw_data == delete(original, entity_id)
            IN IF Len(raw_data) < Len(original)
               THEN /\ campaigns' = raw_data
                    /\ file' = "ok"
                    /\ repo' = [op |-> "delete", raised |-> FALSE, id |-> entity_id,
                                ret |-> TRUE, before |-> campaigns, was |-> file]
               ELSE /\ repo' = [op |-> "delete", raised |-> FALSE, id |-> entity_id,
                                ret |-> FALSE, before |-> campaigns, was |-> file]
                    /\ UNCHANGED <<campaigns, file>>
    /\ UNCHANGED <<customers, uuids, th, everSent, simulated, flt, aborted>>

RepoGetById(entity_id) ==
    /\ repo.op # "get_by_id"
    /\ repo' = IF ReadRaises(file)
               THEN [Raised("get_by_id") EXCEPT !.op = "get_by_id"]
               ELSE [op |-> "get_by_id", raised |-> FALSE, id |-> entity_id,
                     ret |-> get_by_id(_read_all_raw(file, campaigns), entity_id),
                     after |-> repo, before |-> campaigns, was |-> file]
    /\ UNCHANGED <<campaigns, customers, uuids, th, everSent, simulated, flt, aborted, file>>

NextRepo ==
    \/ \E entity \in Entities : RepoSave(entity)
    \/ \E entity_id \in EntityIds, entity \in Entities : RepoUpdate(entity_id, entity)
    \/ \E entity_id \in EntityIds : RepoDelete(entity_id)
    \/ \E entity_id \in EntityIds : RepoGetById(entity_id)

SpecRepo == Init /\ [][NextRepo]_vars

\* ---------------------------------------------------------------- damaged store
\* The repository called on a campaigns.json that may be missing, hold no
\* JSON, or be unreadable; `campaigns` is what the file held before.
\* find with the predicates the services pass: c.status == status
find(raw_data, status) == SelectSeq(get_all(raw_data), LAMBDA c : c.status = status)

count(raw_data) == Len(raw_data)

RepoGetAll ==
    /\ repo' = IF ReadRaises(file)
               THEN Raised("get_all")
               ELSE [op |-> "get_all", raised |-> FALSE,
                     ret |-> get_all(_read_all_raw(file, campaigns)),
                     before |-> campaigns, was |-> file]
    /\ UNCHANGED <<campaigns, customers, uuids, th, everSent, simulated, flt, aborted, file>>

\* find as get_draft_campaigns and get_sent_campaigns call it
RepoFind(status) ==
    /\ repo' = IF ReadRaises(file)
               THEN Raised("find")
               ELSE [op |-> "find", raised |-> FALSE,
                     ret |-> find(_read_all_raw(file, campaigns), status),
                     before |-> campaigns, was |-> file]
    /\ UNCHANGED <<campaigns, customers, uuids, th, everSent, simulated, flt, aborted, file>>

RepoCount ==
    /\ repo' = IF ReadRaises(file)
               THEN Raised("count")
               ELSE [op |-> "count", raised |-> FALSE,
                     ret |-> count(_read_all_raw(file, campaigns)),
                     before |-> campaigns, was |-> file]
    /\ UNCHANGED <<campaigns, customers, uuids, th, everSent, simulated, flt, aborted, file>>

\* what the file held before it was damaged
StoredLists ==
    { <<>> } \cup { <<to_dict(e)>> : e \in Entities }
    \cup { <<to_dict(e), to_dict(f)>> : e \in Entities, f \in Entities }

InitStore ==
    /\ campaigns \in StoredLists
    /\ file \in {"ok", "malformed", "missing", "denied"}
    /\ customers = Population
    /\ uuids = 0
    /\ th = [t \in Threads |-> IdleThread]
    /\ everSent = {}
    /\ simulated = {}
    /\ aborted = {}
    /\ repo = [op |-> "none"]
    /\ flt = [applied |-> FALSE]

NextStore ==
    \/ NextRepo
    \/ RepoGetAll
    \/ \E status \in {"Draft", "Sent"} : RepoFind(status)
    \/ RepoCount

SpecStore == InitStore /\ [][NextStore]_vars

\* ---------------------------------------------------------------- codec runs
\* to_dict followed by from_dict applied to drawn entities.
CodecCampaigns ==
    { Campaign(i, title, "Hi {name}", criteria, status, [dt |-> i], stats) :
        i \in EntityIds, title \in {"Sale", "Hi"}, criteria \in CreateCriteria,
        status \in {"Draft", "Sent"},
        stats \in { ZeroStats, [sent |-> 2, opened |-> 1, clicked |-> 0],
                    [sent |-> 100, opened |-> 40, clicked |-> 8],
                    [sent |-> 100, opened |-> 40, clicked |-> 8, failed |-> 2] } }

CodecCustomers == { CustomerUniverse[i] : i \in DOMAIN CustomerUniverse }

CampaignRoundTrip(campaign) ==
    /\ repo.op = "none"
    /\ repo' = [op |-> "codec", cls |-> "Campaign", entity |-> campaign,
                data |-> to_dict(campaign), back |-> from_dict(to_dict(campaign))]
    /\ UNCHANGED <<campaigns, customers, uuids, th, everSent, simulated, flt, aborted, file>>

CustomerRoundTrip(customer) ==
    /\ repo.op = "none"
    /\ repo' = [op |-> "codec", cls |-> "Customer", entity |-> customer,
                data |-> Customer_to_dict(customer),
                back |-> Customer_from_dict(Customer_to_dict(customer))]
    /\ UNCHANGED <<campaigns, customers, uuids, th, everSent, simulated, flt, aborted, file>>

NextCodec ==
    \/ \E campaign \in CodecCampaigns : CampaignRoundTrip(campaign)
    \/ \E customer \in CodecCustomers : CustomerRoundTrip(customer)

SpecCodec == Init /\ [][NextCodec]_vars

\* ---------------------------------------------------------------- filter runs
\* filter_customers applied to drawn populations and drawn criteria.

\* selections from the customer universe (kept in its order), up to MaxPop long
Populations ==
    UNION { { p \in [1..n -> 1..Len(CustomerUniverse)] :
                \A i, j \in 1..n : i < j => p[i] < p[j] } : n \in 0..MaxPop }

\* a key left out of the dict
Absent == <<0, 0>>

\* the dict holding the keys that were not left out
AsCriteria(choice) ==
    [k \in {key \in CriteriaKeys : choice[key] # Absent} |-> choice[k]]

FilterCriteria ==
    { AsCriteria([city |-> city, min_age |-> min_age, max_age |-> max_age,
                  min_spent |-> min_spent, max_spent |-> max_spent,
                  min_spending_score |-> min_score, max_spending_score |-> max_score,
                  is_active |-> is_active]) :
        city \in {Absent, None, Some(""), Some("ANKARA"), Some("Nowhere")},
        min_age \in {Absent, None, Some(30)},
        max_age \in {Absent, Some(30)},
        min_spent \in {Absent, Some(100)},
        max_spent \in {Absent, Some(100)},
        min_score \in {Absent, Some(50)},
        max_score \in {Absent, Some(50)},
        is_active \in {Absent, Some(TRUE), Some(FALSE)} }

InitFilter ==
    /\ campaigns = <<>>
    /\ customers \in { [i \in DOMAIN p |-> CustomerUniverse[p[i]]] : p \in Populations }
    /\ uuids = 0
    /\ th = [t \in Threads |-> IdleThread]
    /\ everSent = {}
    /\ simulated = {}
    /\ aborted = {}
    /\ file = "ok"
    /\ repo = [op |-> "none"]
    /\ flt = [applied |-> FALSE]

ApplyFilter(criteria) ==
    /\ ~flt.applied
    /\ flt' = [applied |-> TRUE, criteria |-> criteria,
               result |-> filter_customers(customers, criteria)]
    /\ UNCHANGED <<campaigns, customers, uuids, th, everSent, simulated, repo, aborted, file>>

NextFilter == \E criteria \in FilterCriteria : ApplyFilter(criteria)

SpecFilter == InitFilter /\ [][NextFilter]_vars

\* ---------------------------------------------------------------- growing audience
\* One caller creating and launching campaigns while customers.json, empty at
\* first, receives customers between the calls. The criteria are dicts that
\* create_campaign is handed: one city, a city of None, an empty city, no key.
AudienceCriteria ==
    { EmptyCriteria,
      [k \in {"city"} |-> Some("ANKARA")],
      [k \in {"city"} |-> None],
      [k \in {"city"} |-> Some("")] }

InitAudience ==
    /\ campaigns = <<>>
    /\ customers = <<>>
    /\ uuids = 0
    /\ th = [t \in Threads |-> IdleThread]
    /\ everSent = {}
    /\ simulated = {}
    /\ aborted = {}
    /\ file = "ok"
    /\ repo = [op |-> "none"]
    /\ flt = [applied |-> FALSE]

\* customer_repository.save of the next customer, made between two calls
AddCustomer ==
    /\ \A t \in Threads : th[t].pc = "idle"
    /\ Len(customers) < NumCustomers
    /\ customers' = Append(customers, CustomerUniverse[Len(customers) + 1])
    /\ UNCHANGED <<campaigns, uuids, th, everSent, simulated, aborted, file, repo, flt>>

AudienceStep(t) ==
    \/ \E criteria \in AudienceCriteria : CreateBegin(t, " Sale ", " Hi {name} ", criteria)
    \/ SaveWrite(t)
    \/ \E id \in CampaignIds, real \in BOOLEAN : LaunchBegin(t, id, real)
    \/ LaunchFilter(t)
    \/ LaunchSend(t)
    \/ UpdateRead(t)
    \/ UpdateWrite(t)

NextAudience ==
    \/ \E t \in SeqThreads : AudienceStep(t)
    \/ AddCustomer

SpecAudience == InitAudience /\ [][NextAudience]_vars

\* ---------------------------------------------------------------- blocking sender
\* One caller creating and launching campaigns, where a send of the SMTP
\* provider (smtplib.SMTP is opened with no timeout) may never return. A call,
\* once made, runs on: the steps of a launch are taken as long as they can be.
SendHangs(t) ==
    /\ th[t].pc = "send"
    /\ th[t].real
    /\ th' = [th EXCEPT ![t].pc = "hung"]
    /\ UNCHANGED <<campaigns, customers, uuids, everSent, simulated, repo, flt, aborted, file>>

\* the launch goes on: filter, a send that returns, the update
LaunchRuns(t) ==
    \/ LaunchFilter(t)
    \/ LaunchSend(t)
    \/ UpdateRead(t)
    \/ UpdateWrite(t)

LiveStep(t) ==
    \/ \E criteria \in {[k \in {"city"} |-> Some("ANKARA")],
                        [k \in {"city"} |-> Some("Nowhere")]} :
          CreateBegin(t, " Sale ", " Hi {name} ", criteria)
    \/ SaveWrite(t)
    \/ \E id \in CampaignIds, real \in BOOLEAN : LaunchBegin(t, id, real)
    \/ LaunchRuns(t)
    \/ SendHangs(t)

NextLive == \E t \in SeqThreads : LiveStep(t)

SpecLive ==
    /\ Init
    /\ [][NextLive]_vars
    /\ \A t \in SeqThreads : WF_vars(LaunchRuns(t))

\* ---------------------------------------------------------------- segment statistics
\* get_segment_statistics on the segment the web view shows. Ages and scores
\* are whole numbers and amounts whole currency units; the averages are in
\* tenths and the revenues in hundredths, as round(x, 1) and round(x, 2)
\* leave them.
RECURSIVE sum(_, _)
sum(customers_, field) ==
    IF customers_ = <<>> THEN 0
    ELSE Head(customers_)[field] + sum(Tail(customers_), field)

active_count_all(customers_) == Len(customers_)

\* `sum(1 for c in customers if c.is_active)`
active_count(customers_) == Len(SelectSeq(customers_, LAMBDA c : c.is_active))

get_segment_statistics(customers_) ==
    IF customers_ = <<>>
    THEN [total_count |-> 0, active_count |-> 0, avg_age |-> 0,
          avg_spending_score |-> 0, total_revenue |-> 0,
          avg_revenue_per_customer |-> 0]
    ELSE LET total_age == sum(customers_, "age")
             total_spending_score == sum(customers_, "spending_score")
             total_revenue == sum(customers_, "total_spent")
         IN [total_count |-> Len(customers_),
             active_count |-> active_count(customers_),
             avg_age |-> Round(10 * total_age, Len(customers_)),
             avg_spending_score |-> Round(10 * total_spending_score, Len(customers_)),
             total_revenue |-> Round(100 * total_revenue, 1),
             avg_revenue_per_customer |-> Round(100 * total_revenue, Len(customers_))]

\* the criteria the segment view is asked for; the empty dict shows everyone
ViewCriteria ==
    { EmptyCriteria,
      [k \in {"city"} |-> Some("ANKARA")],
      [k \in {"city"} |-> Some("Nowhere")],
      [k \in {"is_active"} |-> Some(TRUE)],
      [k \in {"is_active"} |-> Some(FALSE)],
      [k \in {"min_age"} |-> Some(30)],
      [k \in {"max_spent"} |-> Some(100)] }

\* the segment view: filter when criteria were given, every customer otherwise,
\* then the statistics of what is shown
SegmentView(criteria) ==
    /\ flt' = LET shown == IF DOMAIN criteria # {}
                           THEN filter_customers(customers, criteria)
                           ELSE customers
              IN [applied |-> TRUE, viewed |-> TRUE, criteria |-> criteria,
                  result |-> shown, stats |-> get_segment_statistics(shown)]
    /\ UNCHANGED <<campaigns, customers, uuids, th, everSent, simulated, repo, aborted, file>>

NextStats == \E criteria \in ViewCriteria : SegmentView(criteria)

SpecStats == InitFilter /\ [][NextStats]_vars

\* ================================================================ properties

\* the campaign a call was made on, as stored when the call started
Before(rec) == get_by_id(rec.pre, rec.arg)

\* the audience of a campaign: the customers its criteria select
Audience(campaign) == filter_customers(customers, campaign.target_segment_criteria)

\* a launch call that has returned or raised
LaunchDone(rec) == rec.pc = "idle" /\ rec.op = "launch"

\* launch was called on a stored Draft campaign
LaunchedDraft(rec) ==
    LaunchDone(rec) /\ Before(rec) # NoEntity /\ Before(rec).status = "Draft"

Count(seq, Test(_)) == Cardinality({i \in DOMAIN seq : Test(seq[i])})

\* the status held by the stored dict of a campaign
StoredStatus(raw_data, id) ==
    IF FirstIndex(raw_data, id) = 0 THEN "absent"
    ELSE raw_data[FirstIndex(raw_data, id)].status

\* ---------------------------------------------------------------- C1
\* C1: a launch called on a campaign that is stored as Sent (an earlier launch
\* set it) raises AlreadySent, calls no provider, writes nothing, and leaves
\* campaigns.json, status and stats included, exactly as it was.
C1_RelaunchRejected ==
    \A t \in Threads :
        (LaunchDone(th[t]) /\ Before(th[t]) # NoEntity /\ Before(th[t]).status = "Sent")
        => /\ th[t].result.kind = "AlreadySent"
           /\ th[t].sends = <<>>
           /\ th[t].nwrites = 0
           /\ campaigns = th[t].pre

\* a second launch was rejected on a campaign whose first launch delivered
C1_Witness ==
    \E t \in Threads :
        /\ LaunchDone(th[t])
        /\ th[t].result.kind = "AlreadySent"
        /\ get_by_id(campaigns, th[t].arg).status = "Sent"
        /\ get_by_id(campaigns, th[t].arg).stats.sent > 0

\* ---------------------------------------------------------------- C2
\* C2: with calls made one after another, a campaign stored as Sent stays
\* stored as Sent in every later step, and a campaign goes from Draft to Sent
\* only if it has never been Sent before (so at most once).
C2_StatusMonotone ==
    [][\A id \in CampaignIds :
          /\ StoredStatus(campaigns, id) = "Sent" => StoredStatus(campaigns', id) = "Sent"
          /\ (StoredStatus(campaigns, id) = "Draft" /\ StoredStatus(campaigns', id) = "Sent")
                => id \notin everSent]_vars

\* simulate_engagement has rewritten a campaign that a launch had set to Sent
C2_Witness ==
    \E t \in Threads :
        /\ th[t].pc = "idle" /\ th[t].op = "simulate" /\ th[t].nwrites = 1
        /\ StoredStatus(th[t].pre, th[t].arg) = "Sent"
        /\ StoredStatus(campaigns, th[t].arg) = "Sent"

\* ---------------------------------------------------------------- C3
\* C3: a launch of a Draft campaign with a non-empty audience M, all of whose
\* sends succeeded, returns success with emails_sent = |M|, emails_failed = 0,
\* target_audience_size = |M|, and the campaign read back is Sent with
\* stats.sent = |M|.
C3_LaunchDeliversToAudience ==
    \A t \in Threads :
        (/\ LaunchedDraft(th[t])
         /\ Audience(Before(th[t])) # <<>>
         /\ \A i \in DOMAIN th[t].sends : th[t].sends[i].ok)
        => /\ th[t].result.kind = "Launched"
           /\ th[t].result.success = TRUE
           /\ th[t].result.emails_sent = Len(Audience(Before(th[t])))
           /\ th[t].result.emails_failed = 0
           /\ th[t].result.target_audience_size = Len(Audience(Before(th[t])))
           /\ get_by_id(campaigns, th[t].arg).status = "Sent"
           /\ get_by_id(campaigns, th[t].arg).stats.sent = Len(Audience(Before(th[t])))

\* a launch delivered to an audience of two customers
C3_Witness ==
    \E t \in Threads :
        /\ LaunchedDraft(th[t])
        /\ th[t].result.kind = "Launched"
        /\ th[t].result.emails_sent = 2
        /\ th[t].result.emails_failed = 0
        /\ get_by_id(campaigns, th[t].arg).stats.sent = 2

\* ---------------------------------------------------------------- C4
\* C4: a launch of a Draft campaign whose criteria select no customer returns
\* {success: false, emails_sent: 0, target_audience_size: 0}, calls no provider,
\* writes nothing, and leaves the campaign Draft with all stats zero.
C4_EmptyAudienceAborts ==
    \A t \in Threads :
        (LaunchedDraft(th[t]) /\ Audience(Before(th[t])) = <<>>)
        => /\ th[t].result.kind = "NoAudience"
           /\ th[t].result.success = FALSE
           /\ th[t].result.emails_sent = 0
           /\ th[t].result.target_audience_size = 0
           /\ th[t].sends = <<>>
           /\ th[t].nwrites = 0
           /\ campaigns = th[t].pre
           /\ get_by_id(campaigns, th[t].arg).status = "Draft"
           /\ get_by_id(campaigns, th[t].arg).stats = ZeroStats

\* a launch was aborted for lack of audience
C4_Witness ==
    \E t \in Threads :
        /\ LaunchedDraft(th[t])
        /\ Audience(Before(th[t])) = <<>>
        /\ th[t].result.kind = "NoAudience"

\* ---------------------------------------------------------------- C5
\* C5: while a launch is sending, the provider has been called once for each of
\* the first customers of the audience, in audience order; when the launch
\* returns, it has been called exactly once for every customer of the audience
\* in that order, failures included, and emails_sent and emails_failed count the
\* True and False answers, adding up to target_audience_size = |M|.
C5_EveryCustomerOnceInOrder ==
    \A t \in Threads :
        LET rec == th[t]
            M == Audience(Before(rec))
        IN /\ (rec.op = "launch" /\ rec.pc = "send")
                => /\ Len(rec.sends) = rec.idx - 1
                   /\ rec.idx <= Len(M)
                   /\ \A i \in DOMAIN rec.sends : rec.sends[i].to = M[i].id
                   /\ rec.emails_sent + rec.emails_failed = Len(rec.sends)
           /\ (LaunchDone(rec) /\ rec.result.kind = "Launched")
                => /\ Len(rec.sends) = Len(M)
                   /\ \A i \in DOMAIN rec.sends : rec.sends[i].to = M[i].id
                   /\ rec.result.emails_sent = Count(rec.sends, LAMBDA s : s.ok)
                   /\ rec.result.emails_failed = Count(rec.sends, LAMBDA s : ~s.ok)
                   /\ rec.result.emails_sent + rec.result.emails_failed = Len(M)
                   /\ rec.result.target_audience_size = Len(M)

\* a launch went on after a failed send: the first send failed, the second succeeded
C5_Witness ==
    \E t \in Threads :
        /\ LaunchDone(th[t])
        /\ th[t].result.kind = "Launched"
        /\ Len(th[t].sends) = 2
        /\ ~th[t].sends[1].ok
        /\ th[t].sends[2].ok
        /\ th[t].result.emails_sent = 1
        /\ th[t].result.emails_failed = 1

\* ---------------------------------------------------------------- C6
\* names that are the same city up to letter case
CaseClasses ==
    { {"Ankara", "ankara", "ANKARA"}, {"Izmir", "izmir", "IZMIR"}, {"Nowhere", "nowhere"} }

SameIgnoringCase(a, b) == a = b \/ \E class \in CaseClasses : a \in class /\ b \in class

\* the bound k is set in the criteria: the key is there with a value (a city of
\* None or "" sets no bound)
Bound(criteria, k) ==
    /\ k \in DOMAIN criteria
    /\ criteria[k] # None
    /\ k = "city" => criteria[k] # Some("")

\* the customer satisfies every bound the criteria set
Satisfies(customer, criteria) ==
    /\ Bound(criteria, "city") => SameIgnoringCase(customer.city, criteria["city"][1])
    /\ Bound(criteria, "min_age") => customer.age >= criteria["min_age"][1]
    /\ Bound(criteria, "max_age") => customer.age <= criteria["max_age"][1]
    /\ Bound(criteria, "min_spent") => customer.total_spent >= criteria["min_spent"][1]
    /\ Bound(criteria, "max_spent") => customer.total_spent <= criteria["max_spent"][1]
    /\ Bound(criteria, "min_spending_score")
          => customer.spending_score >= criteria["min_spending_score"][1]
    /\ Bound(criteria, "max_spending_score")
          => customer.spending_score <= criteria["max_spending_score"][1]
    /\ Bound(criteria, "is_active") => customer.is_active = criteria["is_active"][1]

\* C6: filter_customers returns the stored customers that satisfy every bound of
\* the criteria, each once and in stored order, and no others; with no key at
\* all it returns the whole population, and with a city no customer lives in it
\* returns the empty list.
C6_FilterExact ==
    flt.applied =>
        LET kept == {i \in 1..Len(customers) : Satisfies(customers[i], flt.criteria)}
        IN /\ Len(flt.result) = Cardinality(kept)
           /\ \E f \in [1..Len(flt.result) -> kept] :
                 /\ \A i, j \in 1..Len(flt.result) : i < j => f[i] < f[j]
                 /\ \A i \in 1..Len(flt.result) : flt.result[i] = customers[f[i]]
           /\ DOMAIN flt.criteria = {} => flt.result = customers
           /\ (Bound(flt.criteria, "city") /\ flt.criteria["city"] = Some("Nowhere"))
                 => flt.result = <<>>

\* city ANKARA and min_age 30 keep the customer of "Ankara" aged exactly 30 and
\* drop the customer of "ankara" aged 20
C6_Witness ==
    /\ flt.applied
    /\ customers = <<CustomerUniverse[1], CustomerUniverse[3]>>
    /\ DOMAIN flt.criteria = {"city", "min_age"}
    /\ flt.criteria["city"] = Some("ANKARA")
    /\ flt.criteria["min_age"] = Some(30)
    /\ flt.result = <<CustomerUniverse[1]>>

\* ---------------------------------------------------------------- C7
HasId(raw_data, id) == \E i \in 1..Len(raw_data) : raw_data[i].id = id

\* C7: after any sequence of save, update and delete calls the collection holds
\* no two entities with the same id: a save of an id already stored leaves the
\* collection unchanged, and an update leaves no id stored twice.
C7_NoDuplicateIds ==
    /\ \A i, j \in 1..Len(campaigns) : i # j => campaigns[i].id # campaigns[j].id
    /\ (repo.op = "save" /\ HasId(repo.before, repo.entity.id)) => campaigns = repo.before

\* ---------------------------------------------------------------- C8
\* C8: get_by_id(e.id) called right after save(e) returns an entity equal to e,
\* whatever the collection held before the save.
C8_SaveThenGet ==
    (repo.op = "get_by_id" /\ repo.after.op = "save" /\ repo.id = repo.after.entity.id)
        => repo.ret = repo.after.entity

\* ---------------------------------------------------------------- C9
\* a thread is about to write a list that is no longer the stored one
StaleWriter(t) ==
    th[t].pc \in {"update_write", "save_write"} /\ th[t].raw # campaigns

\* C9: with two threads, a campaign stored as Sent stops being stored as Sent
\* only in the step of a thread that writes back a list it read before another
\* write: launches lose an update through the interleaving of the read-whole /
\* write-whole steps, and in no other way.
C9_UpdateLostOnlyByStaleWrite ==
    [][\A id \in CampaignIds :
          (StoredStatus(campaigns, id) = "Sent" /\ StoredStatus(campaigns', id) # "Sent")
          => \E t \in Threads : StaleWriter(t) /\ th'[t].pc = "idle" /\ th'[t].stale]_vars

\* two launches on different campaigns have both returned success, and one of
\* the two campaigns is stored as Draft with sent = 0
C9_Witness ==
    \E t, u \in Threads :
        /\ t # u
        /\ LaunchDone(th[t]) /\ th[t].result.kind = "Launched" /\ th[t].result.success
        /\ LaunchDone(th[u]) /\ th[u].result.kind = "Launched" /\ th[u].result.success
        /\ th[t].arg # th[u].arg
        /\ th[t].result.emails_sent > 0
        /\ StoredStatus(campaigns, th[t].arg) = "Draft"
        /\ get_by_id(campaigns, th[t].arg).stats.sent = 0
        /\ StoredStatus(campaigns, th[u].arg) = "Sent"

\* ---------------------------------------------------------------- C10
\* C10: of the launch calls made on one stored campaign, whatever their
\* interleaving, at most one calls the provider, no customer is sent the
\* campaign twice, and every other call raises AlreadySent.
C10_LaunchesAtMostOnce ==
    \A t, u \in Threads :
        (/\ t # u
         /\ th[t].op = "launch" /\ th[u].op = "launch"
         /\ th[t].arg = th[u].arg
         /\ Before(th[t]) # NoEntity /\ Before(th[u]) # NoEntity
         /\ th[t].sends # <<>>)
        => /\ th[u].sends = <<>>
           /\ \A i \in DOMAIN th[t].sends, j \in DOMAIN th[u].sends :
                 th[t].sends[i].to # th[u].sends[j].to
           /\ th[u].pc = "idle" => th[u].result.kind = "AlreadySent"

\* ---------------------------------------------------------------- C11
\* a simulate_engagement call that starts in this step
SimulateStarts(t, id) ==
    /\ th[t].pc = "idle"
    /\ th'[t] # th[t]
    /\ th'[t].op = "simulate"
    /\ th'[t].arg = id

SimulateDone(rec) ==
    rec.pc = "idle" /\ rec.op = "simulate" /\ rec.result.kind = "Simulated"

\* "just launched, never simulated"
JustLaunched(stats) == stats.sent > 0 /\ stats.opened = 0 /\ stats.clicked = 0

\* the stored dict with opened and clicked blanked
SaveEngagement(item) == [item EXCEPT !.stats.opened = 0, !.stats.clicked = 0]

\* C12: a simulate_engagement call on a campaign that was not just launched
\* (sent = 0, or opened > 0, or clicked > 0) returns the campaign and writes
\* nothing; a call on a just-launched campaign leaves every stored campaign as
\* it was except for opened and clicked of that campaign.
C12_SimulateFrame ==
    \A t \in SeqThreads :
        SimulateDone(th[t])
        => LET rec == th[t]
               i == FirstIndex(rec.pre, rec.arg)
           IN IF JustLaunched(rec.pre[i].stats)
              THEN /\ rec.nwrites = 1
                   /\ Len(campaigns) = Len(rec.pre)
                   /\ \A j \in DOMAIN campaigns :
                         IF j = i
                         THEN SaveEngagement(campaigns[j]) = rec.pre[j]
                         ELSE campaigns[j] = rec.pre[j]
              ELSE /\ rec.nwrites = 0
                   /\ campaigns = rec.pre
                   /\ rec.result.campaign = from_dict(rec.pre[i])

\* the caller's last call was simulate_engagement on a campaign that had
\* already been opened, stored next to a Draft campaign; it wrote nothing
C12_Witness ==
    \E t \in SeqThreads :
        /\ SimulateDone(th[t])
        /\ th[t].result.campaign.stats.opened > 0
        /\ th[t].nwrites = 0
        /\ Len(campaigns) = 2
        /\ StoredStatus(campaigns, 3 - th[t].arg) = "Draft"

\* ---------------------------------------------------------------- C13
\* the stats stored for a campaign id
StoredStats(raw_data, id) == raw_data[FirstIndex(raw_data, id)].stats

\* a simulate_engagement call that triggered and has returned
SimulateTriggered(rec) ==
    SimulateDone(rec) /\ JustLaunched(StoredStats(rec.pre, rec.arg))

\* C13: after simulate_engagement triggered on a campaign with sent = n, the
\* stored opened lies between floor(0.25 n) and floor(0.65 n) and the stored
\* clicked between floor(0.05 opened) and floor(0.20 opened); for n = 100
\* opened is in 25..65 and clicked is at least 1.
C13_SimulatedRanges ==
    \A t \in SeqThreads :
        SimulateTriggered(th[t])
        => LET n == StoredStats(th[t].pre, th[t].arg).sent
               opened == StoredStats(campaigns, th[t].arg).opened
               clicked == StoredStats(campaigns, th[t].arg).clicked
           IN /\ 100 * (opened + 1) > 25 * n
              /\ 100 * opened <= 65 * n
              /\ 100 * (clicked + 1) > 5 * opened
              /\ 100 * clicked <= 20 * opened
              /\ StoredStats(campaigns, th[t].arg).sent = n
              /\ n = 100 => opened \in 25..65 /\ clicked >= 1

\* simulate_engagement triggered on sent = 100 and stored opened = 65, clicked = 13
C13_Witness ==
    \E t \in SeqThreads :
        /\ SimulateTriggered(th[t])
        /\ StoredStats(th[t].pre, th[t].arg).sent = 100
        /\ StoredStats(campaigns, th[t].arg).opened = 65
        /\ StoredStats(campaigns, th[t].arg).clicked = 13

\* ---------------------------------------------------------------- C14
\* a get_campaign_performance call that has returned its metrics
PerformanceDone(rec) ==
    rec.pc = "idle" /\ rec.op = "performance" /\ rec.result.kind = "Performance"

\* the counter k of a stored stats dict, 0 when the dict has no such key
Counter(stats, k) == IF k \in DOMAIN stats THEN stats[k] ELSE 0

\* m hundredths is exactly a / b * 100, or 0 when b = 0
ExactPercent(m, a, b) == IF b = 0 THEN m = 0 ELSE m * b = 10000 * a

\* m hundredths is a / b * 100 rounded to 2 decimals, or 0 when b = 0
RoundedPercent(m, a, b) ==
    IF b = 0 THEN m = 0
    ELSE 2 * (m * b - 10000 * a) <= b /\ 2 * (10000 * a - m * b) <= b

\* e tenths is min(100, 0.6 * opened/sent*100 + 4.0 * clicked/sent*100) rounded
\* to 1 decimal, or 0 when sent = 0
RoundedScore(e, sent, opened, clicked) ==
    LET x == 600 * opened + 4000 * clicked   \* ten times the score, times sent
    IN IF sent = 0 THEN e = 0
       ELSE IF x >= 1000 * sent THEN e = 1000
       ELSE 2 * (e * sent - x) <= sent /\ 2 * (x - e * sent) <= sent

\* e tenths is exactly min(100, 0.6 * open_rate + 4.0 * click_through_rate)
ExactScore(e, sent, opened, clicked) ==
    LET x == 600 * opened + 4000 * clicked
    IN IF sent = 0 THEN e = 0
       ELSE IF x >= 1000 * sent THEN e = 1000
       ELSE e * sent = x

\* the metrics of the scenario {sent: 100, opened: 40, clicked: 8, failed: 0}
Scenario(stats, m) ==
    (stats = [sent |-> 100, opened |-> 40, clicked |-> 8, failed |-> 0])
    => /\ m.delivery_rate = 10000 /\ m.open_rate = 4000 /\ m.click_rate = 2000
       /\ m.click_through_rate = 800 /\ m.roi_prediction = 12000
       /\ m.engagement_score = 560

\* C14 as amended: for every stored stats tuple, performance returns each rate
\* rounded to 2 decimals (0 when its denominator is 0), roi_prediction =
\* clicked * 15 and engagement_score rounded to 1 decimal; the scenario
\* {100, 40, 8, 0} yields 100, 40, 20, 8, 120 and 56.
C14_PerformanceRounded ==
    \A t \in SeqThreads :
        PerformanceDone(th[t])
        => LET stats == StoredStats(th[t].pre, th[t].arg)
               sent == Counter(stats, "sent")
               opened == Counter(stats, "opened")
               clicked == Counter(stats, "clicked")
               failed == Counter(stats, "failed")
               m == th[t].result.metrics
           IN /\ RoundedPercent(m.delivery_rate, sent, sent + failed)
              /\ RoundedPercent(m.open_rate, opened, sent)
              /\ RoundedPercent(m.click_rate, clicked, opened)
              /\ RoundedPercent(m.click_through_rate, clicked, sent)
              /\ m.roi_prediction = 1500 * clicked
              /\ RoundedScore(m.engagement_score, sent, opened, clicked)
              /\ Scenario(stats, m)

\* performance returned 66.67 as the delivery rate of sent = 4, failed = 2
C14_Witness ==
    \E t \in SeqThreads :
        /\ PerformanceDone(th[t])
        /\ StoredStats(th[t].pre, th[t].arg) =
              [sent |-> 4, opened |-> 3, clicked |-> 1, failed |-> 2]
        /\ th[t].result.metrics.delivery_rate = 6667
        /\ th[t].result.metrics.click_rate = 3333

\* C14 as stated: performance returns each rate and the engagement score as
\* the exact quotient.
C14_PerformanceExact ==
    \A t \in SeqThreads :
        PerformanceDone(th[t])
        => LET stats == StoredStats(th[t].pre, th[t].arg)
               sent == Counter(stats, "sent")
               opened == Counter(stats, "opened")
               clicked == Counter(stats, "clicked")
               failed == Counter(stats, "failed")
               m == th[t].result.metrics
           IN /\ ExactPercent(m.delivery_rate, sent, sent + failed)
              /\ ExactPercent(m.open_rate, opened, sent)
              /\ ExactPercent(m.click_rate, clicked, opened)
              /\ ExactPercent(m.click_through_rate, clicked, sent)
              /\ m.roi_prediction = 1500 * clicked
              /\ ExactScore(m.engagement_score, sent, opened, clicked)
              /\ Scenario(stats, m)

\* ---------------------------------------------------------------- C15
\* C15: after a launch that returned success with s sends succeeded and f
\* failed, the stored stats of the campaign hold sent = s and failed = f, and
\* performance on it reports failed = f and delivery_rate = s / (s + f) * 100.
C15_FailuresPersisted ==
    \A t \in SeqThreads :
        (LaunchDone(th[t]) /\ th[t].result.kind = "Launched")
        => LET s == th[t].result.emails_sent
               f == th[t].result.emails_failed
               stats == StoredStats(campaigns, th[t].arg)
               m == get_campaign_performance(get_by_id(campaigns, th[t].arg))
           IN /\ Counter(stats, "sent") = s
              /\ Counter(stats, "failed") = f
              /\ m.failed = f
              /\ RoundedPercent(m.delivery_rate, s, s + f)

\* ---------------------------------------------------------------- C16
\* a create_campaign call that has returned or raised
CreateDone(rec) == rec.pc = "idle" /\ rec.op = "create"

\* empty or whitespace-only
Blank(str) == str \in {"", " "}

\* C16: a create call whose title or content_template is empty or
\* whitespace-only, or whose criteria are empty, raises the validation error
\* and writes nothing: the campaign collection is as it was before the call.
C16_InvalidCreateRejected ==
    \A t \in SeqThreads :
        (/\ CreateDone(th[t])
         /\ \/ Blank(th[t].inp[1])
            \/ Blank(th[t].inp[2])
            \/ th[t].inp[3] = EmptyCriteria)
        => /\ th[t].result.kind = "ValidationError"
           /\ th[t].nwrites = 0
           /\ campaigns = th[t].pre

\* a create call with a valid title and criteria but a whitespace-only
\* template was rejected while a campaign was stored
C16_Witness ==
    \E t \in SeqThreads :
        /\ CreateDone(th[t])
        /\ th[t].inp = <<" Sale ", " ", [k \in {"city"} |-> Some("ANKARA")]>>
        /\ th[t].result.kind = "ValidationError"
        /\ Len(campaigns) = 1

\* ---------------------------------------------------------------- C17
\* C17: a create call that succeeded returned a campaign whose id no stored
\* campaign had, with status Draft and all counters zero; the collection is
\* the one before the call with that campaign appended, and get_by_id of the
\* new id returns the campaign.
C17_CreatePersists ==
    \A t \in SeqThreads :
        (CreateDone(th[t]) /\ th[t].result.kind = "Created")
        => LET k == th[t].result.campaign
               pre == th[t].pre
           IN /\ \A i \in DOMAIN pre : pre[i].id # k.id
              /\ k.status = "Draft"
              /\ k.stats = [sent |-> 0, opened |-> 0, clicked |-> 0]
              /\ Len(campaigns) = Len(pre) + 1
              /\ \A i \in DOMAIN pre : campaigns[i] = pre[i]
              /\ campaigns[Len(campaigns)].id = k.id
              /\ get_by_id(campaigns, k.id) = k

\* a second campaign was created next to a campaign that had been launched
C17_Witness ==
    \E t \in SeqThreads :
        /\ CreateDone(th[t]) /\ th[t].result.kind = "Created"
        /\ Len(th[t].pre) = 1
        /\ th[t].pre[1].status = "Sent"
        /\ Len(campaigns) = 2

\* ---------------------------------------------------------------- C18
\* stats.sent stored for a campaign id, 0 when the id is not stored
StoredSent(raw_data, id) ==
    IF FirstIndex(raw_data, id) = 0 THEN 0 ELSE StoredStats(raw_data, id).sent

\* C18: with calls made one after another, once a launch has stored a campaign
\* as Sent with its stats.sent, no step of create, launch or
\* simulate_engagement lowers the stats.sent stored for that campaign.
C18_SentNeverDecreases ==
    [][\A id \in CampaignIds :
          id \in everSent => StoredSent(campaigns', id) >= StoredSent(campaigns, id)]_vars

\* a launched campaign with sent = 2 has been simulated (opened = 1) and
\* relaunched in vain, and still holds sent = 2
C18_Witness ==
    \E t \in SeqThreads :
        /\ LaunchDone(th[t]) /\ th[t].result.kind = "AlreadySent"
        /\ th[t].arg \in simulated
        /\ StoredStats(campaigns, th[t].arg).opened = 1
        /\ StoredSent(campaigns, th[t].arg) = 2

\* ---------------------------------------------------------------- C19
\* a launch, performance or simulate_engagement call, returned or raised, that
\* was made with an id of no stored campaign
UnknownIdCall(rec) ==
    /\ rec.pc = "idle"
    /\ rec.op \in {"launch", "performance", "simulate"}
    /\ \A i \in DOMAIN rec.pre : rec.pre[i].id # rec.arg

\* C19: launch, performance and simulate_engagement called with an id of no
\* stored campaign raise the not-found error, call no provider and leave the
\* campaign collection and the customer collection as they were.
C19_UnknownIdNotFound ==
    \A t \in SeqThreads :
        UnknownIdCall(th[t])
        => /\ th[t].result.kind = "NotFound"
           /\ th[t].sends = <<>>
           /\ th[t].nwrites = 0
           /\ campaigns = th[t].pre
           /\ customers = Population

\* launch with the SMTP provider was called with id 2 while only campaign 1,
\* a Draft campaign, was stored
C19_Witness ==
    \E t \in SeqThreads :
        /\ UnknownIdCall(th[t])
        /\ th[t].op = "launch" /\ th[t].real /\ th[t].arg = 2
        /\ Len(campaigns) = 1
        /\ StoredStatus(campaigns, 1) = "Draft"

\* ---------------------------------------------------------------- C20
CustomerFields ==
    {"id", "name", "email", "city", "age", "spending_score", "total_spent", "is_active"}

CampaignFields ==
    {"id", "title", "content_template", "target_segment_criteria", "status",
     "created_at", "stats"}

\* C20: from_dict(to_dict(e)) has every field of e with the value it has in e,
\* for every Customer (8 fields) and every Campaign (7 fields, created_at
\* passing through its ISO string); the dict holds exactly those keys.
C20_CodecRoundTrip ==
    repo.op = "codec"
    => LET fields == IF repo.cls = "Customer" THEN CustomerFields ELSE CampaignFields
       IN /\ DOMAIN repo.data = fields
          /\ DOMAIN repo.back = fields
          /\ \A f \in fields : repo.back[f] = repo.entity[f]
          /\ repo.cls = "Campaign" => "iso" \in DOMAIN repo.data.created_at

\* a Sent campaign with counters and a 'failed' key went through the codec
C20_Witness ==
    /\ repo.op = "codec"
    /\ repo.cls = "Campaign"
    /\ repo.entity.status = "Sent"
    /\ repo.entity.stats = [sent |-> 100, opened |-> 40, clicked |-> 8, failed |-> 2]
    /\ repo.data.created_at = [iso |-> 2]
    /\ repo.back.created_at = [dt |-> 2]

\* ---------------------------------------------------------------- C21
\* the last repository call was a read operation on a damaged file
DamagedRead ==
    /\ repo.op \in {"get_all", "find", "count", "get_by_id", "update", "delete"}
    /\ repo.was # "ok"

\* the answer each read operation gives on an empty collection
EmptyAnswer ==
    CASE repo.op \in {"get_all", "find"} -> repo.ret = <<>>
      [] repo.op = "count" -> repo.ret = 0
      [] repo.op \in {"get_by_id", "update"} -> repo.ret = NoEntity
      [] repo.op = "delete" -> repo.ret = FALSE

\* C21: on a backing file that is corrupt or unreadable, get_all, find, count,
\* get_by_id, update and delete do not raise, answer as on an empty
\* collection, and do not write the file.
C21_DamagedStoreReadsEmpty ==
    DamagedRead
    => /\ ~repo.raised
       /\ EmptyAnswer
       /\ campaigns = repo.before
       /\ file = repo.was

\* ---------------------------------------------------------------- C30
\* C30: save(e) on a backing file that does not hold JSON does not raise and
\* writes the one-entry collection holding e: get_all then returns only e,
\* whatever the file held before.
C30_SaveOnCorruptStore ==
    (repo.op = "save" /\ repo.was = "malformed")
    => /\ ~repo.raised
       /\ repo.ret = repo.entity
       /\ file = "ok"
       /\ campaigns = <<to_dict(repo.entity)>>
       /\ get_all(campaigns) = <<repo.entity>>

\* save was called on a corrupt file that had held two campaigns
C30_Witness ==
    /\ repo.op = "save"
    /\ repo.was = "malformed"
    /\ Len(repo.before) = 2
    /\ Len(campaigns) = 1

\* ---------------------------------------------------------------- C25
\* the positions of a collection that carry an id
Positions(raw_data, id) == {j \in DOMAIN raw_data : raw_data[j].id = id}

\* C25: update(id, e) on an id the collection does not hold returns None and
\* writes nothing; on an id it holds, it returns e and the collection differs
\* from the one before only at the first position carrying the id, which
\* holds e, so get_all differs at that position at most.
C25_UpdateReplacesFirstOnly ==
    (repo.op = "update" /\ ~repo.raised)
    => LET held == Positions(repo.before, repo.id)
       IN IF held = {}
          THEN /\ repo.ret = NoEntity
               /\ campaigns = repo.before
          ELSE LET first == CHOOSE j \in held : \A k \in held : j <= k
               IN /\ repo.ret = repo.entity
                  /\ Len(campaigns) = Len(repo.before)
                  /\ campaigns[first] = to_dict(repo.entity)
                  /\ \A j \in DOMAIN campaigns :
                        j # first => campaigns[j] = repo.before[j]
                  /\ \A j \in DOMAIN campaigns :
                        j # first => get_all(campaigns)[j] = get_all(repo.before)[j]
                  /\ get_all(campaigns)[first] = repo.entity

\* update replaced the first of two entries carrying id 1, in second and
\* third position, by an entity that differs from both
C25_Witness ==
    /\ repo.op = "update" /\ ~repo.raised
    /\ repo.id = 1
    /\ Positions(repo.before, 1) = {2, 3}
    /\ repo.before[2].status = "Draft"
    /\ repo.entity.status = "Sent"
    /\ campaigns[2].status = "Sent"
    /\ campaigns[3].status = "Draft"

\* ---------------------------------------------------------------- C22
\* the sum of a field over the positions of a segment, position set by
\* position set
RECURSIVE Total(_, _, _)
Total(segment, positions, field) ==
    IF positions = {} THEN 0
    ELSE LET i == CHOOSE j \in positions : TRUE
         IN segment[i][field] + Total(segment, positions \ {i}, field)

StatsFields ==
    {"total_count", "active_count", "avg_age", "avg_spending_score",
     "total_revenue", "avg_revenue_per_customer"}

\* C22: the statistics of an empty segment are the six fields, all 0; those
\* of a non-empty segment have total_count equal to its length, active_count
\* equal to the number of its active customers (at most total_count) and
\* total_revenue equal to the sum of total_spent.
C22_SegmentStatistics ==
    (flt.applied /\ "stats" \in DOMAIN flt)
    => LET segment == flt.result
           stats == flt.stats
       IN /\ DOMAIN stats = StatsFields
          /\ segment = <<>> => \A f \in StatsFields : stats[f] = 0
          /\ segment # <<>> =>
                /\ stats.total_count = Len(segment)
                /\ stats.active_count =
                      Cardinality({i \in DOMAIN segment : segment[i].is_active})
                /\ stats.active_count <= stats.total_count
                /\ stats.total_revenue =
                      100 * Total(segment, DOMAIN segment, "total_spent")

\* statistics of a two-customer segment with one active customer
C22_Witness ==
    /\ flt.applied /\ "stats" \in DOMAIN flt
    /\ Len(flt.result) = 2
    /\ flt.stats.active_count = 1
    /\ flt.stats.total_revenue = 15000

\* statistics of a segment that a filter left empty although customers exist
C22_WitnessEmpty ==
    /\ flt.applied /\ "stats" \in DOMAIN flt
    /\ customers # <<>>
    /\ flt.result = <<>>
    /\ flt.stats.total_count = 0

\* ---------------------------------------------------------------- C23
\* what create set on a stored campaign
CreatedFields(item) ==
    [id |-> item.id, title |-> item.title,
     content_template |-> item.content_template,
     target_segment_criteria |-> item.target_segment_criteria,
     created_at |-> item.created_at]

\* C23: with calls made one after another, no step changes the id, title,
\* content_template, target_segment_criteria or created_at stored for a
\* campaign; a step of launch or simulate_engagement leaves every stored
\* campaign other than the one it was called on as it was, and a step of
\* launch changes nothing of its own campaign but status and stats.sent.
C23_CreatedFieldsKept ==
    [][/\ \A i \in DOMAIN campaigns :
            /\ i \in DOMAIN campaigns'
            /\ CreatedFields(campaigns'[i]) = CreatedFields(campaigns[i])
       /\ \A t \in Threads :
            (th'[t] # th[t] /\ th'[t].op \in {"launch", "simulate"})
            => /\ Len(campaigns') = Len(campaigns)
               /\ \A i \in DOMAIN campaigns :
                     campaigns[i].id # th'[t].arg => campaigns'[i] = campaigns[i]
               /\ th'[t].op = "launch" =>
                     \A i \in DOMAIN campaigns :
                        campaigns'[i] =
                           [campaigns[i] EXCEPT
                               !.status = campaigns'[i].status,
                               !.stats.sent = campaigns'[i].stats.sent]]_vars

\* the second of two stored campaigns was launched to two customers and
\* simulated, the first is still a Draft
C23_Witness ==
    /\ Len(campaigns) = 2
    /\ campaigns[1].status = "Draft"
    /\ campaigns[2].status = "Sent"
    /\ campaigns[2].stats.sent = 2
    /\ campaigns[2].stats.opened = 1
    /\ \E t \in SeqThreads :
          /\ th[t].pc = "idle" /\ th[t].op = "simulate" /\ th[t].arg = campaigns[2].id
          /\ th[t].nwrites = 1

\* ---------------------------------------------------------------- C28
\* C28: every stored campaign has 0 <= clicked <= opened <= sent, and a stored
\* Draft campaign has sent = opened = clicked = 0.
C28_StatsOrdered ==
    \A i \in DOMAIN campaigns :
        LET stats == campaigns[i].stats
        IN /\ 0 <= stats.clicked
           /\ stats.clicked <= stats.opened
           /\ stats.opened <= stats.sent
           /\ campaigns[i].status = "Draft" =>
                 (stats.sent = 0 /\ stats.opened = 0 /\ stats.clicked = 0)

\* the first stored campaign was sent to two customers and one of them opened
\* it; the second is a Draft
C28_Witness ==
    /\ Len(campaigns) = 2
    /\ campaigns[1].status = "Sent"
    /\ campaigns[1].stats = [sent |-> 2, opened |-> 1, clicked |-> 0]
    /\ campaigns[1].id \in simulated
    /\ campaigns[2].status = "Draft"

\* ---------------------------------------------------------------- C29
\* a campaign stored as Sent that was delivered to nobody
Undelivered(raw_data, id) ==
    /\ StoredStatus(raw_data, id) = "Sent"
    /\ StoredSent(raw_data, id) = 0

\* a launch that called the provider and saw every send fail
AllSendsFailed(rec) ==
    /\ LaunchDone(rec)
    /\ rec.sends # <<>>
    /\ \A k \in DOMAIN rec.sends : ~rec.sends[k].ok

\* C29: with calls made one after another, a launch whose every send failed
\* returns success with emails_sent = 0 and leaves the campaign stored as Sent
\* with stats.sent = 0; a campaign stored so stays stored exactly so in every
\* later step, a launch called on it raises AlreadySent without calling the
\* provider, and a simulate_engagement called on it writes nothing.
C29_UndeliveredIsTerminal ==
    /\ [](\A t \in SeqThreads :
            /\ AllSendsFailed(th[t]) =>
                  /\ th[t].result.kind = "Launched"
                  /\ th[t].result.success
                  /\ th[t].result.emails_sent = 0
                  /\ Undelivered(campaigns, th[t].arg)
            /\ (LaunchDone(th[t]) /\ Undelivered(th[t].pre, th[t].arg)) =>
                  /\ th[t].result.kind = "AlreadySent"
                  /\ th[t].sends = <<>>
                  /\ th[t].nwrites = 0
            /\ (th[t].op = "simulate" /\ Undelivered(th[t].pre, th[t].arg)) =>
                  /\ th[t].pc = "idle"
                  /\ th[t].nwrites = 0
                  /\ th[t].result.kind = "Simulated")
    /\ [][\A i \in DOMAIN campaigns :
            Undelivered(campaigns, campaigns[i].id) =>
                (i \in DOMAIN campaigns' /\ campaigns'[i] = campaigns[i])]_vars

\* a campaign with an audience whose launch reached nobody was relaunched
\* with the working provider, and the relaunch was refused
C29_Witness ==
    \E t \in SeqThreads :
        /\ LaunchDone(th[t]) /\ ~th[t].real
        /\ th[t].result.kind = "AlreadySent"
        /\ Undelivered(th[t].pre, th[t].arg)
        /\ Undelivered(campaigns, th[t].arg)
        /\ Audience(Before(th[t])) # <<>>

\* ---------------------------------------------------------------- C24
\* the customers stored now that satisfy the criteria stored for a campaign,
\* in stored order
Matching(id) ==
    SelectSeq(customers,
              LAMBDA c : Satisfies(c, campaigns[FirstIndex(campaigns, id)].target_segment_criteria))

\* a step in which a launch call returns or raises
LaunchReturns(t) ==
    /\ th'[t] # th[t]
    /\ th'[t].op = "launch"
    /\ th'[t].pc = "idle"

\* C24: a campaign whose launch found no audience and that was never sent is
\* still stored as Draft; and when a launch of such a campaign returns while
\* customers matching its criteria are stored, it returns success (it does not
\* raise AlreadySent), it has called the provider once for each matching
\* customer, in stored order, and for nobody else, and the campaign is stored
\* as Sent.
C24_ZeroAudienceRetry ==
    /\ [](\A id \in aborted \ everSent : StoredStatus(campaigns, id) = "Draft")
    /\ [][\A t \in SeqThreads :
            (/\ LaunchReturns(t)
             /\ th'[t].arg \in aborted \ everSent
             /\ Matching(th'[t].arg) # <<>>)
            => /\ th'[t].result.kind = "Launched"
               /\ th'[t].result.success
               /\ Len(th'[t].sends) = Len(Matching(th'[t].arg))
               /\ \A k \in DOMAIN th'[t].sends :
                     th'[t].sends[k].to = Matching(th'[t].arg)[k].id
               /\ StoredStatus(campaigns', th'[t].arg) = "Sent"]_vars

\* a launch that found nobody was followed, once the two customers of Ankara
\* were stored, by a launch of the same campaign that reached both
C24_Witness ==
    \E t \in SeqThreads :
        /\ LaunchDone(th[t]) /\ th[t].result.kind = "Launched"
        /\ th[t].arg \in aborted
        /\ th[t].result.emails_sent = 2
        /\ Len(th[t].sends) = 2
        /\ StoredStatus(campaigns, th[t].arg) = "Sent"

\* ---------------------------------------------------------------- C26
\* the criteria set at least one bound
Effective(criteria) == \E k \in DOMAIN criteria : Bound(criteria, k)

\* C26: a create call handed criteria that set no bound raises
\* ValidationError, and every stored campaign carries criteria that set at
\* least one bound.
C26_CreatedCampaignsAreBounded ==
    /\ \A t \in SeqThreads :
          (th[t].op = "create" /\ ~Effective(th[t].inp[3]))
          => (th[t].pc = "idle" /\ th[t].result.kind = "ValidationError")
    /\ \A i \in DOMAIN campaigns : Effective(campaigns[i].target_segment_criteria)

\* ---------------------------------------------------------------- C27
\* a launch call is under way
Launching(rec) == rec.op = "launch" /\ rec.pc \notin {"idle", "hung"}

\* a launch call is blocked in a send that does not return
Hung(rec) == rec.op = "launch" /\ rec.pc = "hung"

\* C27: a launch under way eventually returns unless one of its sends never
\* returns; a launch that found an audience for campaign id leads to id being
\* stored as Sent unless one of its sends never returns; a launch blocked in a
\* send stays blocked, writes nothing, and its campaign is stored as Draft.
C27_LaunchEndsWithSender ==
    /\ \A t \in SeqThreads :
          Launching(th[t]) ~> (LaunchDone(th[t]) \/ Hung(th[t]))
    /\ \A t \in SeqThreads, id \in CampaignIds :
          (Launching(th[t]) /\ th[t].arg = id /\ th[t].pc = "send")
          ~> (StoredStatus(campaigns, id) = "Sent" \/ (Hung(th[t]) /\ th[t].arg = id))
    /\ [](\A t \in SeqThreads :
            Hung(th[t]) => StoredStatus(campaigns, th[t].arg) = "Draft")
    /\ [][\A t \in SeqThreads :
            Hung(th[t]) => (th'[t] = th[t] /\ campaigns' = campaigns)]_vars

\* a launch to two customers through the SMTP provider, whose sends all
\* returned, has returned and its campaign is stored as Sent
C27_Witness ==
    \E t \in SeqThreads :
        /\ LaunchDone(th[t]) /\ th[t].real
        /\ th[t].result.kind = "Launched"
        /\ Len(th[t].sends) = 2
        /\ StoredStatus(campaigns, th[t].arg) = "Sent"

\* a launch is blocked in its second send; its campaign is stored as Draft
C27_WitnessHung ==
    \E t \in SeqThreads :
        /\ Hung(th[t])
        /\ Len(th[t].sends) = 1
        /\ StoredStatus(campaigns, th[t].arg) = "Draft"

====
